---- MODULE Spec2Model ----
(***************************************************************************)
(* A model of the data-preparation helpers of hossam/util.py.              *)
(*                                                                         *)
(* A dataset (pandas DataFrame) is a record                                *)
(*     [columns, index, dtype, cell]                                       *)
(* columns: the column labels, left to right; index: the row labels, top   *)
(* to bottom; dtype[c]: the column's dtype; cell[c][r]: the value of       *)
(* column c in the row labelled r.                                         *)
(*                                                                         *)
(* Numbers are fixed-point: the integer n stands for n / Unit.  The        *)
(* datasets of Init hold whole numbers (multiples of Unit), so that the    *)
(* quartiles (quarters), the boundaries (eighths) and the quartiles and    *)
(* boundaries of an already clipped column are exact, as they are in       *)
(* binary floating point.  A missing value (np.nan) is the value NaN,      *)
(* which compares False with everything and propagates through             *)
(* arithmetic.  The values of an object column are nominal labels, held    *)
(* as their rank in the alphabet ("a" = 1, "b" = 2, ...).                  *)
(***************************************************************************)
EXTENDS Integers, Sequences, FiniteSets, TLC

VARIABLES
    data,   \* the caller's dataset object, as it is now
    orig,   \* what the caller's dataset object held when it was created
    op,     \* the last call made: its name and arguments
    ret,    \* the outcome of the last call: returned value or exception
    loop    \* the position of my_vif_filter's while loop, when one is running

vars == <<data, orig, op, ret, loop>>

-----------------------------------------------------------------------------
(* Bounds of the model *)

NRows == 4
MaxCols == 2
MaxVif == 2

(* Fixed point: eighths of eighths. *)
Unit == 8 * 8

NaN == -1000000000

Names == <<"A", "B", "C", "D">>

Range(s) == {s[i] : i \in 1..Len(s)}

(* the element of a set of one element *)
Only(S) == CHOOSE x \in S : TRUE

IsNaN(x) == x = NaN

(* IEEE comparisons: False when either side is NaN *)
lt(a, b) == ~IsNaN(a) /\ ~IsNaN(b) /\ a < b
gt(a, b) == ~IsNaN(a) /\ ~IsNaN(b) /\ a > b
le(a, b) == ~IsNaN(a) /\ ~IsNaN(b) /\ a <= b

-----------------------------------------------------------------------------
(* DataFrame primitives *)

NoFrame ==
    [columns |-> <<>>, index |-> <<>>,
     dtype |-> [c \in {} |-> "object"], cell |-> [c \in {} |-> <<>>]]

NoTable == [index |-> <<>>, row |-> [c \in {} |-> <<>>]]

(* yname=None *)
None == ""

(* the dtype test every helper repeats *)
IsNumeric(dt) == dt \in {"int", "int32", "int64", "float", "float32", "float64"}

(* df.drop(names, axis=1): a new frame without the columns named *)
drop(df, names) ==
    LET keep == SelectSeq(df.columns, LAMBDA c : c \notin Range(names))
    IN  [columns |-> keep, index |-> df.index,
         dtype |-> [c \in Range(keep) |-> df.dtype[c]],
         cell |-> [c \in Range(keep) |-> df.cell[c]]]

(* df[names]: a new frame of the columns named, in the order named *)
getitem(df, names) ==
    [columns |-> names, index |-> df.index,
     dtype |-> [c \in Range(names) |-> df.dtype[c]],
     cell |-> [c \in Range(names) |-> df.cell[c]]]

(* df[names] = src as it would be if a new column went to the left of the  *)
(* columns already there: the order C2 has to tell from the real one       *)
setitem_left(df, names, src) ==
    LET new == SelectSeq(names, LAMBDA c : c \notin Range(df.columns))
        cols == new \o df.columns
    IN  [columns |-> cols, index |-> df.index,
         dtype |-> [c \in Range(cols) |->
                      IF c \in Range(names) THEN src.dtype[c] ELSE df.dtype[c]],
         cell |-> [c \in Range(cols) |->
                      IF c \in Range(names) THEN src.cell[c] ELSE df.cell[c]]]

(* df[names] = src: a column already there is overwritten where it stands, *)
(* a new one is appended on the right, in the order named                  *)
setitem(df, names, src) ==
    LET new == SelectSeq(names, LAMBDA c : c \notin Range(df.columns))
        cols == df.columns \o new
    IN  [columns |-> cols, index |-> df.index,
         dtype |-> [c \in Range(cols) |->
                      IF c \in Range(names) THEN src.dtype[c] ELSE df.dtype[c]],
         cell |-> [c \in Range(cols) |->
                      IF c \in Range(names) THEN src.cell[c] ELSE df.cell[c]]]

(* the columns whose dtype is not numeric, left to right *)
CategoryFields(df) ==
    SelectSeq(df.columns, LAMBDA f : ~IsNumeric(df.dtype[f]))

(* the columns whose dtype is numeric, left to right *)
NumericFields(df) == SelectSeq(df.columns, LAMBDA f : IsNumeric(df.dtype[f]))

(* the values of column f, top to bottom *)
Column(df, f) == [i \in 1..Len(df.index) |-> df.cell[f][df.index[i]]]

-----------------------------------------------------------------------------
(* The caller's object and the helper's local name df.  A helper works on  *)
(* a handle [arg, loc, ref]: arg is the caller's object, loc the object    *)
(* the helper made for itself, ref says which of the two df names.         *)

(* df = data: df names the caller's own object (what every helper would    *)
(* do without its copy)                                                    *)
alias(d) == [arg |-> d, loc |-> d, ref |-> "arg"]

(* data.copy(): df names a fresh object *)
copy(d) == [arg |-> d, loc |-> d, ref |-> "loc"]

Deref(h) == IF h.ref = "arg" THEN h.arg ELSE h.loc

(* an in-place change of the object df names *)
Store(h, d) ==
    IF h.ref = "arg" THEN [h EXCEPT !.arg = d] ELSE [h EXCEPT !.loc = d]

(* df = <a new object> *)
Rebind(h, d) == [h EXCEPT !.loc = d, !.ref = "loc"]

Return(frame, h) ==
    [status |-> "ok", frame |-> frame, table |-> NoTable, arg |-> h.arg]

Raise(e, h) ==
    [status |-> e, frame |-> NoFrame, table |-> NoTable, arg |-> h.arg]

-----------------------------------------------------------------------------
(* a quantile that averages the two halves of the sorted values around the *)
(* median (the method of the worked example of C9) instead of              *)
(* interpolating at (n-1)*q                                                *)
quantile_halves(col, q4) ==
    LET s == SortSeq(SelectSeq(col, LAMBDA x : ~IsNaN(x)), LAMBDA a, b : a < b)
        n == Len(s)
        h == n \div 2
        Med(a, b) == IF (b - a) % 2 = 0 THEN s[(a + b) \div 2]
                     ELSE (s[(a + b - 1) \div 2] + s[(a + b + 1) \div 2]) \div 2
    IN  IF n = 0 THEN NaN
        ELSE IF n = 1 THEN s[1]
        ELSE IF q4 = 1 THEN Med(1, h)
        ELSE IF q4 = 3 THEN Med(n - h + 1, n)
        ELSE Med(1, n)

(* Series.quantile(q), q = q4/4: missing values are skipped, the rest is   *)
(* sorted and interpolated linearly at position (n-1)*q; NaN when nothing  *)
(* is left                                                                 *)
quantile(col, q4) ==
    LET s == SortSeq(SelectSeq(col, LAMBDA x : ~IsNaN(x)), LAMBDA a, b : a < b)
        n == Len(s)
        lo == ((n - 1) * q4) \div 4
        r == ((n - 1) * q4) % 4
    IN  IF n = 0 THEN NaN
        ELSE IF r = 0 THEN s[lo + 1]
        ELSE s[lo + 1] + (r * (s[lo + 2] - s[lo + 1])) \div 4

(* a boundary row with the two boundaries on the wrong sides of the        *)
(* quartiles                                                               *)
OutlierRow_swapped(col) ==
    LET q1 == quantile(col, 1)
        q2 == quantile(col, 2)
        q3 == quantile(col, 3)
        iqr == IF IsNaN(q1) \/ IsNaN(q3) THEN NaN ELSE q3 - q1
        down == IF IsNaN(iqr) THEN NaN ELSE q1 + (3 * iqr) \div 2
        up == IF IsNaN(iqr) THEN NaN ELSE q3 - (3 * iqr) \div 2
    IN  [Q1 |-> q1, Q2 |-> q2, Q3 |-> q3, IQR |-> iqr, UP |-> up, DOWN |-> down]

(* one row of the boundary table *)
OutlierRow(col) ==
    LET q1 == quantile(col, 1)
        q2 == quantile(col, 2)
        q3 == quantile(col, 3)
        iqr == IF IsNaN(q1) \/ IsNaN(q3) THEN NaN ELSE q3 - q1
        down == IF IsNaN(iqr) THEN NaN ELSE q1 - (3 * iqr) \div 2
        up == IF IsNaN(iqr) THEN NaN ELSE q3 + (3 * iqr) \div 2
    IN  [Q1 |-> q1, Q2 |-> q2, Q3 |-> q3, IQR |-> iqr, UP |-> up, DOWN |-> down]

(* my_outlier_table: [status, table].  data[f] raises KeyError for a name  *)
(* that is no column of data; set_index("FIELD") raises KeyError when no   *)
(* row was collected.                                                      *)
my_outlier_table(df, fields_) ==
    LET fields == IF fields_ = <<>> THEN df.columns ELSE fields_
        result == SelectSeq(fields,
                      LAMBDA f : f \in Range(df.columns) /\ IsNumeric(df.dtype[f]))
    IN  IF \E i \in 1..Len(fields) : fields[i] \notin Range(df.columns)
          THEN [status |-> "KeyError", table |-> NoTable]
        ELSE IF result = <<>>
          THEN [status |-> "KeyError", table |-> NoTable]
        ELSE [status |-> "ok",
              table |-> [index |-> result,
                         row |-> [f \in Range(result) |-> OutlierRow(Column(df, f))]]]

-----------------------------------------------------------------------------
(* The outlier replacement family *)

(* a replacement that forgets the upper side *)
ReplaceColumn_lower(col, row, low, high) ==
    [r \in DOMAIN col |-> IF lt(col[r], row.DOWN) THEN low ELSE col[r]]

(* df.loc[df[f] < DOWN, f] = low ; df.loc[df[f] > UP, f] = high, for every *)
(* f of the table (the columns are independent of each other)              *)
ReplaceColumn(col, row, low, high) ==
    LET c1 == [r \in DOMAIN col |-> IF lt(col[r], row.DOWN) THEN low ELSE col[r]]
    IN  [r \in DOMAIN col |-> IF gt(c1[r], row.UP) THEN high ELSE c1[r]]

ClipWith(df, table) ==
    [df EXCEPT !.cell = [c \in DOMAIN df.cell |->
        IF c \in Range(table.index)
          THEN ReplaceColumn(df.cell[c], table.row[c], table.row[c].DOWN, table.row[c].UP)
          ELSE df.cell[c]]]

MarkWith(df, table) ==
    [df EXCEPT !.cell = [c \in DOMAIN df.cell |->
        IF c \in Range(table.index)
          THEN ReplaceColumn(df.cell[c], table.row[c], NaN, NaN)
          ELSE df.cell[c]]]

my_replace_outliner(data_, fields) ==
    LET h0 == copy(data_)
        category_fields == CategoryFields(Deref(h0))
        cate == getitem(Deref(h0), category_fields)
        h1 == Rebind(h0, drop(Deref(h0), category_fields))
    IN  Only({
          LET h2 == Store(h1, ClipWith(Deref(h1), outliner_table.table))
              h3 == IF category_fields # <<>>
                      THEN Store(h2, setitem(Deref(h2), category_fields, cate))
                      ELSE h2
          IN  IF outliner_table.status # "ok" THEN Raise(outliner_table.status, h1)
              ELSE Return(Deref(h3), h3)
          : outliner_table \in {my_outlier_table(Deref(h1), fields)} })

my_replace_outliner_to_nan(data_, fields) ==
    LET h0 == copy(data_)
        category_fields == CategoryFields(Deref(h0))
        cate == getitem(Deref(h0), category_fields)
        h1 == Rebind(h0, drop(Deref(h0), category_fields))
    IN  Only({
          LET h2 == Store(h1, MarkWith(Deref(h1), outliner_table.table))
              h3 == IF category_fields # <<>>
                      THEN Store(h2, setitem(Deref(h2), category_fields, cate))
                      ELSE h2
          IN  IF outliner_table.status # "ok" THEN Raise(outliner_table.status, h1)
              ELSE Return(Deref(h3), h3)
          : outliner_table \in {my_outlier_table(Deref(h1), fields)} })

(* SimpleImputer(strategy="mean"): the mean of the values present, here    *)
(* rounded down to the fixed-point grid                                    *)
ColumnMean(col) ==
    LET present == SelectSeq(col, LAMBDA x : ~IsNaN(x))
        Total[i \in 0..Len(present)] == IF i = 0 THEN 0 ELSE Total[i - 1] + present[i]
    IN  Total[Len(present)] \div Len(present)

(* my_replace_missing_value with strategy "mean".  fit_transform raises    *)
(* ValueError on a non-numeric array; it leaves out a column with no value *)
(* present, and DataFrame(..., columns=data.columns) then raises           *)
(* ValueError for the shape.                                               *)
my_replace_missing_value(data_) ==
    LET empty == {c \in Range(data_.columns) :
                     \A r \in Range(data_.index) : IsNaN(data_.cell[c][r])}
        df_imr == [data_ EXCEPT
            !.dtype = [c \in DOMAIN data_.dtype |-> "float64"],
            !.cell = [c \in DOMAIN data_.cell |->
                [r \in DOMAIN data_.cell[c] |->
                    IF IsNaN(data_.cell[c][r])
                      THEN ColumnMean(Column(data_, c))
                      ELSE data_.cell[c][r]]]]
    IN  IF \E c \in Range(data_.columns) : ~IsNumeric(data_.dtype[c])
          THEN [status |-> "ValueError", frame |-> NoFrame, table |-> NoTable, arg |-> data_]
        ELSE IF empty # {}
          THEN [status |-> "ValueError", frame |-> NoFrame, table |-> NoTable, arg |-> data_]
        ELSE [status |-> "ok", frame |-> df_imr, table |-> NoTable, arg |-> data_]

my_replace_outliner_to_mean(data_, fields_) ==
    LET h0 == copy(data_)
        category_fields == CategoryFields(Deref(h0))
        cate == getitem(Deref(h0), category_fields)
        h1 == Rebind(h0, drop(Deref(h0), category_fields))
        fields == IF fields_ = <<>> THEN Deref(h1).columns ELSE fields_
    IN  Only({
          LET h2 == Store(h1, df2.arg) IN
            IF df2.status # "ok" THEN Raise(df2.status, h2)
            ELSE Only({
                   IF df3.status # "ok" THEN Raise(df3.status, h2)
                   ELSE IF category_fields # <<>>
                     THEN Return(setitem(df3.frame, category_fields, cate), h2)
                   ELSE Return(df3.frame, h2)
                   : df3 \in {my_replace_missing_value(df2.frame)} })
          : df2 \in {my_replace_outliner_to_nan(Deref(h1), fields)} })

(* df.dropna(): the rows with no missing value in any column *)
dropna(df) ==
    LET keep == SelectSeq(df.index,
                    LAMBDA r : \A c \in Range(df.columns) : ~IsNaN(df.cell[c][r]))
    IN  [df EXCEPT !.index = keep,
                   !.cell = [c \in DOMAIN df.cell |->
                                [r \in Range(keep) |-> df.cell[c][r]]]]

my_drop_outliner(data_, fields) ==
    Only({ IF df.status # "ok" THEN df
           ELSE [df EXCEPT !.frame = dropna(df.frame)]
           : df \in {my_replace_outliner_to_nan(data_, fields)} })

-----------------------------------------------------------------------------
(* The scalers *)

Sum(col) ==
    LET S[i \in 0..Len(col)] == IF i = 0 THEN 0 ELSE S[i - 1] + col[i]
    IN  S[Len(col)]

Min(col) == CHOOSE x \in Range(col) : \A y \in Range(col) : x <= y
Max(col) == CHOOSE x \in Range(col) : \A y \in Range(col) : x >= y

(* StandardScaler: (x - mean) / std over the values present, a std of 0    *)
(* counting as 1; a missing value stays missing.  With w the values in     *)
(* whole numbers, n of them, that is (n w - sum w) / sqrt(n sum w^2 -      *)
(* (sum w)^2), here rounded towards 0 to the eighth.                       *)
StandardColumn(col) ==
    LET present == SelectSeq(col, LAMBDA x : ~IsNaN(x))
        w == [i \in 1..Len(present) |-> present[i] \div Unit]
        n == Len(w)
        s == Sum(w)
        d == n * Sum([i \in 1..n |-> w[i] * w[i]]) - s * s
        Z8(x) == LET t == n * (x \div Unit) - s
                     q == (64 * t * t) \div d
                     k == CHOOSE j \in 0..(8 * n) : j * j <= q /\ q < (j + 1) * (j + 1)
                 IN  IF t < 0 THEN 0 - k ELSE k
    IN  [r \in DOMAIN col |->
            IF IsNaN(col[r]) THEN NaN
            ELSE IF d = 0 THEN 0
            ELSE Z8(col[r]) * (Unit \div 8)]

(* MinMaxScaler: (x - min) / (max - min) over the values present, a range  *)
(* of 0 counting as 1; a missing value stays missing                       *)
MinMaxColumn(col) ==
    LET present == SelectSeq(col, LAMBDA x : ~IsNaN(x))
    IN  [r \in DOMAIN col |->
            IF IsNaN(col[r]) THEN NaN
            ELSE IF Max(present) = Min(present) THEN 0
            ELSE ((col[r] - Min(present)) * Unit) \div (Max(present) - Min(present))]

(* what the two scalers share; kind is "standard" or "minmax".             *)
(* fit_transform raises ValueError on a frame without columns.             *)
Scale(data_, yname, kind) ==
    LET h0 == copy(data_)
        y == IF yname # None THEN getitem(Deref(h0), <<yname>>) ELSE NoFrame
        h1 == IF yname # None THEN Rebind(h0, drop(Deref(h0), <<yname>>)) ELSE h0
        category_fields == CategoryFields(Deref(h1))
        cate == getitem(Deref(h1), category_fields)
        h2 == Rebind(h1, drop(Deref(h1), category_fields))
        df == Deref(h2)
        std_df == [df EXCEPT
            !.dtype = [c \in DOMAIN df.dtype |-> "float64"],
            !.cell = [c \in DOMAIN df.cell |->
                         IF kind = "standard" THEN StandardColumn(df.cell[c])
                         ELSE MinMaxColumn(df.cell[c])]]
        s1 == IF category_fields # <<>>
                THEN setitem(std_df, category_fields, cate) ELSE std_df
        s2 == IF yname # None THEN setitem(s1, <<yname>>, y) ELSE s1
    IN  IF yname # None /\ yname \notin Range(data_.columns) THEN Raise("KeyError", h0)
        ELSE IF df.columns = <<>> THEN Raise("ValueError", h2)
        ELSE Return(s2, h2)

my_standard_scaler(data_, yname) == Scale(data_, yname, "standard")

my_minmax_scaler(data_, yname) == Scale(data_, yname, "minmax")

-----------------------------------------------------------------------------
(* my_poly_features *)

(* poly.get_feature_names_out(): the names, then for degree 2 the squares  *)
(* and the products, pair by pair                                          *)
FeatureNames(columns, degree) ==
    LET n == Len(columns)
        Pairs[i \in 0..n] ==
            IF i = 0 THEN <<>>
            ELSE Pairs[i - 1] \o
                 [j \in 1..(n - i + 1) |->
                     LET a == columns[i]
                         b == columns[i + j - 1]
                     IN  IF j = 1 THEN a \o "^2" ELSE a \o " " \o b]
    IN  IF degree = 1 THEN columns ELSE columns \o Pairs[n]

(* the factors of a feature *)
Factors(columns, degree) ==
    LET n == Len(columns)
        Pairs[i \in 0..n] ==
            IF i = 0 THEN <<>>
            ELSE Pairs[i - 1] \o
                 [j \in 1..(n - i + 1) |-> <<columns[i], columns[i + j - 1]>>]
    IN  IF degree = 1 THEN [i \in 1..n |-> <<columns[i]>>]
        ELSE [i \in 1..n |-> <<columns[i]>>] \o Pairs[n]

(* PolynomialFeatures(degree, include_bias=False).fit_transform(df) as a   *)
(* frame *)
PolyFrame(df, degree) ==
    LET names == FeatureNames(df.columns, degree)
        factors == Factors(df.columns, degree)
        At(c) == factors[CHOOSE i \in 1..Len(names) : names[i] = c]
    IN  [columns |-> names, index |-> df.index,
         dtype |-> [c \in Range(names) |-> "float64"],
         cell |-> [c \in Range(names) |->
                     [r \in Range(df.index) |->
                         IF Len(At(c)) = 1 THEN df.cell[At(c)[1]][r]
                         ELSE (df.cell[At(c)[1]][r] \div Unit) * df.cell[At(c)[2]][r]]]]

(* columns and ignore are lists, <<>> standing for None.  With columns     *)
(* None and ignore None, columns becomes [df.columns], a list that holds   *)
(* an Index and names no column: df[columns] raises KeyError.              *)
(* fit_transform raises ValueError for a string, for a missing value and   *)
(* for a frame without columns.                                            *)
my_poly_features(data_, columns_, ignore, degree) ==
    LET h0 == copy(data_)
        ignore_df == getitem(Deref(h0), ignore)
        h1 == IF ignore # <<>> THEN Store(h0, drop(Deref(h0), ignore)) ELSE h0
        columns == IF ignore # <<>> THEN Deref(h1).columns ELSE columns_
        sel == getitem(Deref(h1), columns)
        poly_df == PolyFrame(sel, degree)
        h2 == Store(h1, setitem(Deref(h1), poly_df.columns, poly_df))
        h3 == IF ignore # <<>> THEN Store(h2, setitem(Deref(h2), ignore, ignore_df))
              ELSE h2
    IN  IF \E i \in 1..Len(ignore) : ignore[i] \notin Range(data_.columns)
          THEN Raise("KeyError", h0)
        ELSE IF ignore = <<>> /\ columns_ = <<>> THEN Raise("KeyError", h1)
        ELSE IF \E i \in 1..Len(columns) : columns[i] \notin Range(Deref(h1).columns)
          THEN Raise("KeyError", h1)
        ELSE IF columns = <<>> THEN Raise("ValueError", h1)
        ELSE IF \E c \in Range(columns) :
                  \/ ~IsNumeric(sel.dtype[c])
                  \/ \E r \in Range(sel.index) : IsNaN(sel.cell[c][r])
          THEN Raise("ValueError", h1)
        ELSE Return(Deref(h3), h3)

-----------------------------------------------------------------------------
(* my_labelling *)

(* sorted(list(df[f].unique())).  The values of a numeric column sort as   *)
(* numbers, those of an object column as strings; in an object column a    *)
(* missing value is a float among strings, and comparing the two raises    *)
(* TypeError.  (The callers below pass no numeric column with a missing    *)
(* value.)                                                                 *)
SortRaises(df, f) ==
    /\ ~IsNumeric(df.dtype[f])
    /\ \E r \in Range(df.index) : IsNaN(df.cell[f][r])
    /\ \E r \in Range(df.index) : ~IsNaN(df.cell[f][r])

sorted(S) ==
    LET n == Cardinality(S)
        At[i \in 1..n] ==
            CHOOSE v \in S : Cardinality({w \in S : w < v}) = i - 1
    IN  [i \in 1..n |-> At[i]]

(* label = {v: i for i, v in enumerate(vc)} *)
LabelOf(vc, v) == (CHOOSE i \in 1..Len(vc) : vc[i] = v) - 1

(* df[f] = df[f].map(label).astype("int"): the column is changed in the    *)
(* object df names                                                         *)
LabelColumn(df, f) ==
    LET vc == sorted({df.cell[f][r] : r \in Range(df.index)})
    IN  [df EXCEPT !.dtype[f] = "int64",
                   !.cell[f] = [r \in DOMAIN df.cell[f] |->
                                   LabelOf(vc, df.cell[f][r]) * Unit]]

RECURSIVE LabelFields(_, _, _)
LabelFields(h, fields, i) ==
    IF i > Len(fields) THEN Return(Deref(h), h)
    ELSE IF fields[i] \notin Range(Deref(h).columns) THEN Raise("KeyError", h)
    ELSE IF SortRaises(Deref(h), fields[i]) THEN Raise("TypeError", h)
    ELSE LabelFields(Store(h, LabelColumn(Deref(h), fields[i])), fields, i + 1)

my_labelling(data_, fields) ==
    LabelFields(copy(data_), fields, 1)

-----------------------------------------------------------------------------
(* my_vif_filter *)

(* a column of zeros: the regression of it on the others has a residual    *)
(* sum and a total sum of squares of 0, R^2 = 1 - 0/0 and the VIF          *)
(* 1 / (1 - R^2) are nan                                                   *)
AllZero(df, x) == \A r \in Range(df.index) : df.cell[x][r] = 0

(* the dicts vif the for loop can build over the columns of df, none of    *)
(* which holds a missing value.  The VIF of a column of zeros is nan; any  *)
(* other is a number from 1 up, here 1..MaxVif.  With one column left, the *)
(* regression has no regressor: the library either raises or reports no    *)
(* collinearity.  With none left the dict is empty.                        *)
variance_inflation_factor(df) ==
    LET xnames == Range(df.columns)
        values == [x \in xnames |-> IF AllZero(df, x) THEN {NaN} ELSE 1..MaxVif]
        alone == [x \in xnames |-> IF AllZero(df, x) THEN NaN ELSE 1]
    IN  IF Len(df.columns) = 1
          THEN {[status |-> "ValueError", vif |-> [x \in {} |-> NaN]],
                [status |-> "ok", vif |-> alone]}
        ELSE {[status |-> "ok", vif |-> v] :
                 v \in {w \in [xnames -> (1..MaxVif) \cup {NaN}] :
                           \A x \in xnames : w[x] \in values[x]}}

(* max(vif, key=vif.get): the first key whose value no later value is      *)
(* greater than; a nan value is greater than nothing and nothing is        *)
(* greater than it                                                         *)
max(xnames, vif) ==
    LET Best[i \in 1..Len(xnames)] ==
            IF i = 1 THEN xnames[1]
            ELSE IF gt(vif[xnames[i]], vif[Best[i - 1]]) THEN xnames[i]
            ELSE Best[i - 1]
    IN  Best[Len(xnames)]

(* the statements before the while loop: [status, loop] *)
VifSetup(data_, yname, ignore, threshold) ==
    LET h0 == copy(data_)
        y == IF yname # None THEN getitem(Deref(h0), <<yname>>) ELSE NoFrame
        h1 == IF yname # None THEN Rebind(h0, drop(Deref(h0), <<yname>>)) ELSE h0
        category_fields == CategoryFields(Deref(h1))
        cate == getitem(Deref(h1), category_fields)
        h2 == Rebind(h1, drop(Deref(h1), category_fields))
        ignore_df == getitem(Deref(h2), ignore)
        h3 == IF ignore # <<>> THEN Rebind(h2, drop(Deref(h2), ignore)) ELSE h2
    IN  IF yname # None /\ yname \notin Range(data_.columns)
          THEN [status |-> "KeyError", arg |-> h0.arg]
        ELSE IF \E i \in 1..Len(ignore) : ignore[i] \notin Range(Deref(h2).columns)
          THEN [status |-> "KeyError", arg |-> h2.arg]
        ELSE [status |-> "ok", arg |-> h3.arg,
              loop |-> [pc |-> "while", h |-> h3, y |-> y, cate |-> cate,
                        category_fields |-> category_fields, ignore_df |-> ignore_df,
                        first |-> Deref(h3).columns,
                        vif |-> [x \in {} |-> NaN], maxkey |-> None]]

(* the statements after the while loop *)
VifFinish(l, yname, ignore) ==
    LET h0 == l.h
        h1 == IF l.category_fields # <<>>
                THEN Store(h0, setitem(Deref(h0), l.category_fields, l.cate))
                ELSE h0
        h2 == IF ignore # <<>>
                THEN Store(h1, setitem(Deref(h1), ignore, l.ignore_df))
                ELSE h1
        h3 == IF yname # None
                THEN Store(h2, setitem(Deref(h2), <<yname>>, l.y))
                ELSE h2
    IN  Return(Deref(h3), h3)

-----------------------------------------------------------------------------
(* The datasets the caller may hold *)

Index == [i \in 1..NRows |-> i]

NumCells == {0, Unit, NaN}
ObjCells == {1, 2, NaN}

(* an unremarkable column of each dtype: 0, ..., 0, 1 and "b", "a", "b", ... *)
PlainColumn(dt) ==
    IF IsNumeric(dt)
      THEN [r \in 1..NRows |-> IF r = NRows THEN Unit ELSE 0]
      ELSE [r \in 1..NRows |-> 2 - ((r + 1) % 2)]

(* the columns of a dtype; pandas gives dtype object to a column that     *)
(* holds at least one string                                               *)
ColumnsOf(dt) ==
    IF IsNumeric(dt) THEN [1..NRows -> NumCells]
    ELSE {col \in [1..NRows -> ObjCells] : \E r \in 1..NRows : ~IsNaN(col[r])}

Prefix(s, n) == [i \in 1..n |-> s[i]]

(* every layout of 1..MaxCols columns of dtype float64 or object, one      *)
(* column holding any values and the others plain ones                     *)
Datasets ==
    UNION {
      UNION {
        UNION {
          { [columns |-> Prefix(Names, n), index |-> Index,
             dtype |-> [c \in Range(Prefix(Names, n)) |->
                          dts[CHOOSE i \in 1..n : Names[i] = c]],
             cell |-> [c \in Range(Prefix(Names, n)) |->
                          IF c = Names[j] THEN col
                          ELSE PlainColumn(dts[CHOOSE i \in 1..n : Names[i] = c])]]
            : col \in ColumnsOf(dts[j]) }
          : j \in 1..n }
        : dts \in [1..n -> {"float64", "object"}] }
      : n \in 1..MaxCols }

(* the example of the specification: A = 1, 2, 3, 1000 and a nominal B *)
ExampleA == <<1 * Unit, 2 * Unit, 3 * Unit, 1000 * Unit>>
ExampleB == <<2, 1, 2, 1>>
Example ==
    [columns |-> <<"A", "B">>, index |-> <<1, 2, 3, 4>>,
     dtype |-> [c \in {"A", "B"} |-> IF c = "A" THEN "float64" ELSE "object"],
     cell |-> [c \in {"A", "B"} |-> IF c = "A" THEN ExampleA ELSE ExampleB]]

(* the names a caller may pass: the possible columns and one more *)
Pool == Prefix(Names, MaxCols + 1)

(* the lists of distinct names of the pool *)
FieldLists ==
    { SelectSeq(Pool, LAMBDA c : c \in S) : S \in SUBSET Range(Pool) }

NoCall == [name |-> "none"]
NoRet == [status |-> "none", frame |-> NoFrame, table |-> NoTable]
Idle == [pc |-> "idle"]

Outcome(r) == [status |-> r.status, frame |-> r.frame, table |-> r.table]

Init ==
    /\ data \in Datasets \cup {Example}
    /\ orig = data
    /\ op = NoCall
    /\ ret = NoRet
    /\ loop = Idle

-----------------------------------------------------------------------------
(* The calls.  The caller makes one call at a time and takes its result     *)
(* before the next one.                                                    *)

Ready == loop.pc = "idle" /\ op = NoCall

(* the caller is done with what the last call returned or raised *)
TakeResult ==
    /\ loop.pc = "idle"
    /\ op # NoCall
    /\ op' = NoCall
    /\ ret' = NoRet
    /\ loop' = Idle
    /\ UNCHANGED <<data, orig>>

Call_my_outlier_table ==
    /\ Ready
    /\ \E fields \in FieldLists :
         LET r == my_outlier_table(data, fields) IN
           /\ op' = [name |-> "my_outlier_table", fields |-> fields]
           /\ ret' = [status |-> r.status, frame |-> NoFrame, table |-> r.table]
    /\ UNCHANGED <<data, orig, loop>>

Call_my_replace_outliner ==
    /\ Ready
    /\ \E fields \in FieldLists :
         LET r == my_replace_outliner(data, fields) IN
           /\ op' = [name |-> "my_replace_outliner", fields |-> fields]
           /\ ret' = Outcome(r)
           /\ data' = r.arg
    /\ UNCHANGED <<orig, loop>>

Call_my_replace_outliner_to_nan ==
    /\ Ready
    /\ \E fields \in FieldLists :
         LET r == my_replace_outliner_to_nan(data, fields) IN
           /\ op' = [name |-> "my_replace_outliner_to_nan", fields |-> fields]
           /\ ret' = Outcome(r)
           /\ data' = r.arg
    /\ UNCHANGED <<orig, loop>>

Call_my_replace_outliner_to_mean ==
    /\ Ready
    /\ \E fields \in FieldLists :
         LET r == my_replace_outliner_to_mean(data, fields) IN
           /\ op' = [name |-> "my_replace_outliner_to_mean", fields |-> fields]
           /\ ret' = Outcome(r)
           /\ data' = r.arg
    /\ UNCHANGED <<orig, loop>>

Call_my_drop_outliner ==
    /\ Ready
    /\ \E fields \in FieldLists :
         LET r == my_drop_outliner(data, fields) IN
           /\ op' = [name |-> "my_drop_outliner", fields |-> fields]
           /\ ret' = Outcome(r)
           /\ data' = r.arg
    /\ UNCHANGED <<orig, loop>>

Call_my_replace_missing_value ==
    /\ Ready
    /\ LET r == my_replace_missing_value(data) IN
           /\ op' = [name |-> "my_replace_missing_value"]
           /\ ret' = Outcome(r)
           /\ data' = r.arg
    /\ UNCHANGED <<orig, loop>>

(* my_labelling is for nominal columns and for columns already coded: the  *)
(* caller names no numeric column with a missing value                     *)
Call_my_labelling ==
    /\ Ready
    /\ \E fields \in FieldLists :
         /\ \A f \in Range(fields) \cap Range(data.columns) :
                IsNumeric(data.dtype[f]) =>
                    \A r \in Range(data.index) : ~IsNaN(data.cell[f][r])
         /\ LET r == my_labelling(data, fields) IN
               /\ op' = [name |-> "my_labelling", fields |-> fields]
               /\ ret' = Outcome(r)
               /\ data' = r.arg
    /\ UNCHANGED <<orig, loop>>

(* the thresholds a caller may pass; 0 stands for one below 1 *)
Thresholds == 0..(MaxVif - 1)

(* my_vif_filter up to its while loop.  The regression takes no missing    *)
(* value: the caller passes a dataset whose numeric columns have none.     *)
Call_my_vif_filter ==
    /\ Ready
    /\ \A c \in Range(NumericFields(data)) : \A r \in Range(data.index) :
          ~IsNaN(data.cell[c][r])
    /\ \E yname \in {None} \cup Range(Pool), ignore \in FieldLists,
          threshold \in Thresholds :
         LET r == VifSetup(data, yname, ignore, threshold) IN
           /\ op' = [name |-> "my_vif_filter", yname |-> yname, ignore |-> ignore,
                     threshold |-> threshold]
           /\ data' = r.arg
           /\ IF r.status = "ok"
                THEN loop' = r.loop /\ ret' = NoRet
                ELSE loop' = Idle /\ ret' = Outcome(Raise(r.status, r))
    /\ UNCHANGED orig

(* one turn of the while loop: the VIFs, the maximum, then break and the   *)
(* statements that follow the loop, or the drop                            *)
VifIterate ==
    /\ loop.pc = "while"
    /\ LET df == Deref(loop.h)
           xnames == df.columns
       IN  \E o \in variance_inflation_factor(df) :
             IF o.status # "ok"
               THEN /\ loop' = [loop EXCEPT !.pc = "idle"]
                    /\ ret' = Outcome(Raise(o.status, loop.h))
                    /\ data' = loop.h.arg
             ELSE IF xnames = <<>>
               THEN /\ loop' = [loop EXCEPT !.pc = "idle", !.vif = o.vif]
                    /\ ret' = Outcome(Raise("ValueError", loop.h))
                    /\ data' = loop.h.arg
             ELSE LET maxkey == max(xnames, o.vif) IN
               IF le(o.vif[maxkey], op.threshold)
                 THEN LET r == VifFinish(loop, op.yname, op.ignore) IN
                      /\ loop' = [loop EXCEPT !.pc = "idle", !.vif = o.vif,
                                              !.maxkey = maxkey]
                      /\ ret' = Outcome(r)
                      /\ data' = r.arg
                 ELSE /\ loop' = [loop EXCEPT !.h = Rebind(loop.h, drop(df, <<maxkey>>)),
                                              !.vif = o.vif, !.maxkey = maxkey]
                      /\ data' = loop.h.arg
                      /\ UNCHANGED ret
    /\ UNCHANGED <<orig, op>>

NextVif ==
    \/ Call_my_vif_filter
    \/ VifIterate
    \/ TakeResult

SpecVif == Init /\ [][NextVif]_vars

(* the degrees a caller asks for: 1 and the default, 2 *)
Degrees == {1, 2}

Call_my_standard_scaler ==
    /\ Ready
    /\ \E yname \in {None} \cup Range(Pool) :
         LET r == my_standard_scaler(data, yname) IN
           /\ op' = [name |-> "my_standard_scaler", yname |-> yname]
           /\ ret' = Outcome(r)
           /\ data' = r.arg
    /\ UNCHANGED <<orig, loop>>

Call_my_minmax_scaler ==
    /\ Ready
    /\ \E yname \in {None} \cup Range(Pool) :
         LET r == my_minmax_scaler(data, yname) IN
           /\ op' = [name |-> "my_minmax_scaler", yname |-> yname]
           /\ ret' = Outcome(r)
           /\ data' = r.arg
    /\ UNCHANGED <<orig, loop>>

Call_my_poly_features ==
    /\ Ready
    /\ \E columns \in FieldLists, ignore \in FieldLists, degree \in Degrees :
         LET r == my_poly_features(data, columns, ignore, degree) IN
           /\ op' = [name |-> "my_poly_features", columns |-> columns,
                     ignore |-> ignore, degree |-> degree]
           /\ ret' = Outcome(r)
           /\ data' = r.arg
    /\ UNCHANGED <<orig, loop>>

NextLabelling ==
    \/ Call_my_labelling
    \/ TakeResult

SpecLabelling == Init /\ [][NextLabelling]_vars

NextOutlier ==
    \/ Call_my_outlier_table
    \/ Call_my_replace_outliner
    \/ Call_my_replace_outliner_to_nan
    \/ Call_my_replace_outliner_to_mean
    \/ Call_my_drop_outliner
    \/ Call_my_replace_missing_value
    \/ TakeResult

SpecOutlier == Init /\ [][NextOutlier]_vars

Next ==
    \/ Call_my_standard_scaler
    \/ Call_my_minmax_scaler
    \/ Call_my_outlier_table
    \/ Call_my_replace_outliner
    \/ Call_my_replace_outliner_to_nan
    \/ Call_my_replace_outliner_to_mean
    \/ Call_my_drop_outliner
    \/ Call_my_replace_missing_value
    \/ Call_my_labelling
    \/ Call_my_poly_features
    \/ Call_my_vif_filter
    \/ VifIterate
    \/ TakeResult

Spec == Init /\ [][Next]_vars

-----------------------------------------------------------------------------
(* Vocabulary of the properties *)

OutlierHelpers ==
    {"my_replace_outliner", "my_replace_outliner_to_nan",
     "my_replace_outliner_to_mean", "my_drop_outliner"}

(* the last call was helper name and it returned *)
Returned(name) == op.name = name /\ ret.status = "ok"

(* every categorical value of the input is where it was, in the rows kept *)
CategoricalUntouched ==
    \A c \in Range(CategoryFields(data)) :
        /\ c \in Range(ret.frame.columns)
        /\ \A r \in Range(ret.frame.index) : ret.frame.cell[c][r] = data.cell[c][r]

(* the column holds a value that is not missing *)
HasValue(df, c) == \E r \in Range(df.index) : ~IsNaN(df.cell[c][r])

(* C4 as claimed: every row of every boundary table is ordered
   DOWN <= Q1 <= Q2 <= Q3 <= UP, with IQR = Q3 - Q1, UP = Q3 + 1.5 IQR and
   DOWN = Q1 - 1.5 IQR *)
RowOrdered(row) ==
    /\ le(row.DOWN, row.Q1) /\ le(row.Q1, row.Q2)
    /\ le(row.Q2, row.Q3) /\ le(row.Q3, row.UP)
    /\ row.IQR = row.Q3 - row.Q1
    /\ 2 * (row.UP - row.Q3) = 3 * row.IQR
    /\ 2 * (row.Q1 - row.DOWN) = 3 * row.IQR

C4_AsClaimed ==
    Returned("my_outlier_table") =>
        \A f \in Range(ret.table.index) : RowOrdered(ret.table.row[f])

(* C4, amended: the row of every column that holds at least one value that
   is not missing is ordered DOWN <= Q1 <= Q2 <= Q3 <= UP, with IQR = Q3 - Q1,
   UP = Q3 + 1.5 IQR and DOWN = Q1 - 1.5 IQR; the table has exactly the
   numeric fields asked for, in the order asked *)
C4_OrderedWhenValuePresent ==
    Returned("my_outlier_table") =>
        /\ ret.table.index =
             SelectSeq(IF op.fields = <<>> THEN data.columns ELSE op.fields,
                       LAMBDA f : IsNumeric(data.dtype[f]))
        /\ \A f \in Range(ret.table.index) :
             HasValue(data, f) => RowOrdered(ret.table.row[f])

C4_Witness ==
    /\ Returned("my_outlier_table")
    /\ \E f \in Range(ret.table.index) :
         LET row == ret.table.row[f] IN
           /\ \E r \in Range(data.index) : IsNaN(data.cell[f][r])
           /\ lt(row.DOWN, row.Q1) /\ lt(row.Q1, row.Q2)
           /\ lt(row.Q2, row.Q3) /\ lt(row.Q3, row.UP)

(* C9 as claimed: for A = 1, 2, 3, 1000 the boundary computation yields
   Q1 = 1.5 and Q3 = 502.5 *)
C9_AsClaimed ==
    (data = Example /\ Returned("my_outlier_table") /\ "A" \in Range(ret.table.index)) =>
        /\ 2 * ret.table.row["A"].Q1 = 3 * Unit
        /\ 2 * ret.table.row["A"].Q3 = 1005 * Unit

(* C9, amended: for A = 1, 2, 3, 1000 and a categorical B the boundary
   computation yields Q1 = 1.75, Q3 = 252.25 and UP = 628, below 1000;
   clip-to-boundary returns A = 1, 2, 3, 628 and B unchanged *)
C9_Example ==
    /\ (data = Example /\ op.name = "my_outlier_table" /\ op.fields \in {<<>>, <<"A">>}) =>
         /\ ret.status = "ok"
         /\ ret.table.index = <<"A">>
         /\ 4 * ret.table.row["A"].Q1 = 7 * Unit
         /\ 4 * ret.table.row["A"].Q3 = 1009 * Unit
         /\ ret.table.row["A"].UP = 628 * Unit
         /\ ret.table.row["A"].UP < Example.cell["A"][4]
    /\ (data = Example /\ op.name = "my_replace_outliner" /\ op.fields \in {<<>>, <<"A">>}) =>
         /\ ret.status = "ok"
         /\ ret.frame.columns = <<"A", "B">>
         /\ ret.frame.cell["A"] = <<1 * Unit, 2 * Unit, 3 * Unit, 628 * Unit>>
         /\ ret.frame.cell["B"] = Example.cell["B"]

C9_Witness ==
    /\ data = Example /\ Returned("my_replace_outliner") /\ op.fields = <<>>
    /\ ret.frame.cell["A"][4] # data.cell["A"][4]

(* C1 as claimed: clip-to-boundary applied to its own result, with the
   boundary table computed again from the clipped data, returns that result *)
C1_AsClaimed ==
    Returned("my_replace_outliner") =>
        LET again == my_replace_outliner(ret.frame, op.fields)
        IN  again.status = "ok" /\ again.frame = ret.frame

(* C1, amended: clip-to-boundary is idempotent against one boundary table:
   every value of its result lies within the boundaries computed from the
   input, so that clipping the result once more against those boundaries
   changes nothing (a second call computes narrower boundaries from the
   clipped data and may clip again) *)
C1_IdempotentOnSameTable ==
    Returned("my_replace_outliner") =>
        LET t == my_outlier_table(getitem(data, NumericFields(data)), op.fields)
        IN  /\ t.status = "ok"
            /\ ClipWith(ret.frame, t.table) = ret.frame
            /\ \A f \in Range(t.table.index) : \A r \in Range(data.index) :
                 ~IsNaN(data.cell[f][r]) =>
                    /\ le(t.table.row[f].DOWN, ret.frame.cell[f][r])
                    /\ le(ret.frame.cell[f][r], t.table.row[f].UP)

C1_Witness ==
    /\ Returned("my_replace_outliner")
    /\ \E f \in Range(data.columns) : ret.frame.cell[f] # data.cell[f]
    /\ my_replace_outliner(ret.frame, op.fields).frame # ret.frame

(* C2 as claimed: each of the four outlier helpers returns the columns in
   the order of the input, every categorical value untouched *)
C2_AsClaimed ==
    (op.name \in OutlierHelpers /\ ret.status = "ok") =>
        /\ ret.frame.columns = data.columns
        /\ CategoricalUntouched

(* C2, amended: whenever one of the four outlier helpers returns, the
   columns of the result are the numeric columns of the input in their
   order, followed by its categorical columns in their order (the input's
   order only when no categorical column stands left of a numeric one), and
   every categorical value is untouched in the rows kept *)
C2_NumericThenCategorical ==
    (op.name \in OutlierHelpers /\ ret.status = "ok") =>
        /\ ret.frame.columns = NumericFields(data) \o CategoryFields(data)
        /\ CategoricalUntouched

C2_Witness ==
    /\ Returned("my_drop_outliner")
    /\ ret.frame.columns # data.columns
    /\ Len(ret.frame.index) < Len(data.index)
    /\ CategoryFields(data) # <<>>

(* C6 as claimed: for every dataset and every list of its columns,
   impute-then-fill returns a dataset with the rows and the columns of the
   input and no missing value in a column in which an outlier was marked.
   It is stated here for the datasets whose numeric columns each hold a
   value, and the lists that are empty (all columns) or name a numeric
   column, where no boundary table is empty and no mean is undefined *)
Marked(c) ==
    LET m == my_replace_outliner_to_nan(getitem(data, NumericFields(data)),
                 SelectSeq(op.fields, LAMBDA f : IsNumeric(data.dtype[f])))
    IN  /\ m.status = "ok"
        /\ \E r \in Range(data.index) :
             IsNaN(m.frame.cell[c][r]) /\ ~IsNaN(data.cell[c][r])

C6_AsClaimed ==
    (op.name = "my_replace_outliner_to_mean"
        /\ Range(op.fields) \subseteq Range(data.columns)
        /\ NumericFields(data) # <<>>
        /\ \A c \in Range(NumericFields(data)) : HasValue(data, c)
        /\ (op.fields = <<>> \/ \E f \in Range(op.fields) : IsNumeric(data.dtype[f]))) =>
        /\ ret.status = "ok"
        /\ ret.frame.index = data.index
        /\ Range(ret.frame.columns) = Range(data.columns)
        /\ \A c \in Range(NumericFields(data)) :
             Marked(c) => \A r \in Range(ret.frame.index) : ~IsNaN(ret.frame.cell[c][r])

(* what does hold of impute-then-fill: when it returns, the rows and the
   column labels are the input's and no numeric column holds a missing value *)
C6_WhenReturned ==
    Returned("my_replace_outliner_to_mean") =>
        /\ ret.frame.index = data.index
        /\ Range(ret.frame.columns) = Range(data.columns)
        /\ \A c \in Range(NumericFields(data)) :
             \A r \in Range(ret.frame.index) : ~IsNaN(ret.frame.cell[c][r])

C6_MarkedAndFilled ==
    /\ Returned("my_replace_outliner_to_mean")
    /\ \E c \in Range(NumericFields(data)) : Marked(c)

(* C7 as claimed: a field list that names a non-numeric column of the
   dataset beside a numeric one raises nothing, in my_outlier_table and in
   the four helpers that share it, and the table has a row for each numeric
   field named and for no other *)
NamesNonNumeric ==
    /\ Range(op.fields) \subseteq Range(data.columns)
    /\ \E f \in Range(op.fields) : ~IsNumeric(data.dtype[f])
    /\ \E f \in Range(op.fields) : IsNumeric(data.dtype[f])

C7_AsClaimed ==
    ((op.name = "my_outlier_table" \/ op.name \in OutlierHelpers) /\ NamesNonNumeric) =>
        /\ ret.status = "ok"
        /\ op.name = "my_outlier_table" =>
             ret.table.index = SelectSeq(op.fields, LAMBDA f : IsNumeric(data.dtype[f]))

(* the part of C7 that holds: the direct call skips the non-numeric field *)
C7_DirectCallSkips ==
    (op.name = "my_outlier_table" /\ NamesNonNumeric) =>
        /\ ret.status = "ok"
        /\ ret.table.index = SelectSeq(op.fields, LAMBDA f : IsNumeric(data.dtype[f]))

(* C5 as claimed: for every named column my_labelling maps the sorted
   distinct values one-to-one onto 0..k-1 in sorted order and replaces every
   cell by its code; applied once more to the coded columns it raises
   nothing and leaves the codes unchanged *)
IsCoding(in, out) ==
    LET k == Cardinality({in[r] : r \in DOMAIN in})
    IN  /\ {out[r] : r \in DOMAIN out} = {i * Unit : i \in 0..(k - 1)}
        /\ \A r1, r2 \in DOMAIN in : (in[r1] < in[r2]) <=> (out[r1] < out[r2])

C5_AsClaimed ==
    (op.name = "my_labelling" /\ op.fields # <<>>
        /\ Range(op.fields) \subseteq Range(data.columns)) =>
        /\ ret.status = "ok"
        /\ \A f \in Range(op.fields) :
             /\ IsCoding(data.cell[f], ret.frame.cell[f])
             /\ ret.frame.dtype[f] = "int64"
        /\ \A c \in Range(data.columns) \ Range(op.fields) :
             ret.frame.cell[c] = data.cell[c]
        /\ LET again == my_labelling(ret.frame, op.fields)
           IN  again.status = "ok" /\ again.frame = ret.frame

(* the part of C5 that holds: the same, for named columns that hold no
   missing value *)
C5_WhenNoMissing ==
    (op.name = "my_labelling" /\ op.fields # <<>>
        /\ Range(op.fields) \subseteq Range(data.columns)
        /\ \A f \in Range(op.fields) : \A r \in Range(data.index) :
              ~IsNaN(data.cell[f][r])) =>
        /\ ret.status = "ok"
        /\ \A f \in Range(op.fields) :
             /\ IsCoding(data.cell[f], ret.frame.cell[f])
             /\ ret.frame.dtype[f] = "int64"
        /\ \A c \in Range(data.columns) \ Range(op.fields) :
             ret.frame.cell[c] = data.cell[c]
        /\ LET again == my_labelling(ret.frame, op.fields)
           IN  again.status = "ok" /\ again.frame = ret.frame

C5_LabelledTwoValues ==
    /\ Returned("my_labelling")
    /\ \E f \in Range(op.fields) :
         /\ ~IsNumeric(data.dtype[f])
         /\ Cardinality({ret.frame.cell[f][r] : r \in Range(data.index)}) = 2

(* the last call is my_vif_filter and it reached its while loop *)
InVifLoop == op.name = "my_vif_filter" /\ "vif" \in DOMAIN loop

(* the non-exempt numeric columns that are left *)
Remaining == Deref(loop.h).columns

(* C3 as claimed: when my_vif_filter returns with two or more non-exempt
   numeric columns left, none of them has a VIF above the threshold; and
   every turn of the loop that removes a column removes exactly the one with
   the maximum VIF, that VIF being strictly greater than the threshold (the
   turns looked at are those that start with two or more columns) *)
C3_AsClaimed ==
    /\ (InVifLoop /\ ret.status = "ok" /\ Len(Remaining) >= 2) =>
          \A x \in Range(Remaining) : ~gt(loop.vif[x], op.threshold)
    /\ (InVifLoop /\ loop.maxkey # None /\ loop.maxkey \notin Range(Remaining)
          /\ Cardinality(DOMAIN loop.vif) >= 2) =>
          /\ Range(Remaining) = (DOMAIN loop.vif) \ {loop.maxkey}
          /\ \A x \in DOMAIN loop.vif : ~gt(loop.vif[x], loop.vif[loop.maxkey])
          /\ gt(loop.vif[loop.maxkey], op.threshold)

(* the part of C3 that holds: what my_vif_filter returns has no non-exempt
   numeric column with a VIF above the threshold *)
C3_WhenReturned ==
    (InVifLoop /\ ret.status = "ok") =>
        \A x \in Range(Remaining) : ~gt(loop.vif[x], op.threshold)

(* C10 as claimed: on a dataset with at least one non-exempt numeric column
   the loop of my_vif_filter never drops the last column that is left and
   ends by returning, whatever the threshold *)
C10_AsClaimed ==
    (InVifLoop /\ loop.first # <<>>) =>
        /\ Remaining # <<>>
        /\ loop.pc = "idle" => ret.status = "ok"

(* C8: no helper mutates the dataset object the caller passed: after any
   sequence of calls to the scaling, outlier, labelling, imputation,
   polynomial-feature and VIF helpers, each returning or raising part-way,
   the caller's dataset has the columns, the column order and the cell
   values it had before the calls *)
C8_CallerDatasetUnchanged == data = orig

(* my_poly_features has dropped the ignore columns from df in place and
   then raised *)
C8_RaisedPartWay ==
    /\ op.name = "my_poly_features"
    /\ op.ignore # <<>>
    /\ Range(op.ignore) \subseteq Range(data.columns)
    /\ ret.status = "ValueError"
    /\ data = orig

(* the fields clip-to-boundary and mark-as-missing look at: the numeric
   columns named, all of them for an empty list *)
Looked ==
    IF op.fields = <<>> THEN NumericFields(data)
    ELSE SelectSeq(op.fields, LAMBDA f : IsNumeric(data.dtype[f]))

(* no value of a column looked at lies outside the boundaries of the column *)
NoOutlier ==
    \A f \in Range(Looked) :
        LET row == OutlierRow(Column(data, f))
        IN  \A r \in Range(data.index) :
              ~lt(data.cell[f][r], row.DOWN) /\ ~gt(data.cell[f][r], row.UP)

(* the result has the rows, the column labels and the values of the input *)
SameAsInput ==
    /\ ret.frame.index = data.index
    /\ Range(ret.frame.columns) = Range(data.columns)
    /\ \A c \in Range(data.columns) : ret.frame.cell[c] = data.cell[c]

(* C11 as claimed: when no column has a value outside its boundary, the
   dataset whose columns are all categorical and the empty field list
   included, clip-to-boundary and mark-as-missing return, without error, a
   dataset equal to the input (the field lists looked at name numeric columns
   only, and the order of the columns is left to C2) *)
C11_AsClaimed ==
    (op.name \in {"my_replace_outliner", "my_replace_outliner_to_nan"}
        /\ Range(op.fields) \subseteq Range(NumericFields(data))
        /\ NoOutlier) =>
        /\ ret.status = "ok"
        /\ SameAsInput

(* the part of C11 that holds: the same, for a dataset with a numeric column *)
C11_WhenNumericColumn ==
    (op.name \in {"my_replace_outliner", "my_replace_outliner_to_nan"}
        /\ Range(op.fields) \subseteq Range(NumericFields(data))
        /\ NumericFields(data) # <<>>
        /\ NoOutlier) =>
        /\ ret.status = "ok"
        /\ SameAsInput

C11_NothingOutside ==
    /\ Returned("my_replace_outliner_to_nan")
    /\ NoOutlier
    /\ CategoryFields(data) # <<>>
    /\ \E f \in Range(Looked) : \E r1, r2 \in Range(data.index) :
          lt(data.cell[f][r1], data.cell[f][r2])

====
